---- MODULE Spec2Model ----
(***************************************************************************)
(* Model of src/tools/genpolicy/update_policy_samples.py: the sequential   *)
(* setup phase, the ThreadPoolExecutor dispatch block, timeRunCmd running  *)
(* on the pool's worker threads, the as_completed loop and the total-time  *)
(* report.  sys.stdout is a sequence of write calls, each tagged with the  *)
(* task that issued it (0 for the main thread).  Spec and FairSpec run the *)
(* script over a catalog of ntasks commands; CatalogSpec goes through the  *)
(* file lists of policy_samples.json: the existence check and the two      *)
(* loops that build one command per file.                                  *)
(***************************************************************************)
EXTENDS Integers, Sequences, FiniteSets, TLC

\* ---------------------------------------------------------------- bounds
MaxTasks == 2
MaxWorkers == 2
MaxClock == 1
\* Length of one clock tick in milliseconds.
TickMillis == 6

\* ------------------------------------------------------ program constants
\* The work queue's wake-up item (None) and the main thread as a writer.
None == 0
Main == 0
\* sys.exit(str) and an uncaught exception both end the interpreter with 1.
ExitFailure == 1
ExitSuccess == 0
\* Status while the interpreter is still running.
Running == -1

Tasks == 1..MaxTasks
Workers == 1..MaxWorkers
\* Exit statuses a child can end with (0 = success).
ExitCodes == {0, 1}
\* Status the shell of shell=True exits with when the command's binary does
\* not exist.
ShellNotFound == 127

VARIABLES
    pc,             \* position of the main thread
    exit_status,    \* status the interpreter exited with, Running before
    exc,            \* task whose exception is propagating in main, 0 if none
    setup,          \* the setup commands run so far, each with its status
    ntasks,         \* number of commands the two dispatch loops build
    max_workers,    \* os.cpu_count() as given to the executor
    now,            \* the latest reading of time.time() by any thread
    total_start,
    total_end,
    futures,        \* the list `futures`, as task numbers in submit order
    fstate,         \* Future._state per task
    fexc,           \* TRUE when the future holds an exception
    work_queue,     \* executor._work_queue: task numbers and None
    idle_semaphore, \* executor._idle_semaphore
    shutdown,       \* executor._shutdown
    wpc,            \* position of each worker thread
    wtask,          \* task a worker thread is running, 0 if none
    started,        \* times timeRunCmd was entered, per task
    children,       \* child processes spawned, per task
    returncode,     \* exit status of the task's child, Running before
    output,         \* p.stdout / e.stdout: what the child left in the pipe
    log,            \* the list `log` of timeRunCmd, per task
    start,
    end,
    stdout,         \* sys.stdout: sequence of write calls
    asc_finished,   \* as_completed: futures found finished on entry
    asc_pending,    \* as_completed: futures not yet yielded nor finished
    asc_waiter,     \* as_completed: waiter.finished_futures, oldest first
    asc_installed,  \* as_completed: the waiter is installed
    results,        \* times future.result() was called, per task
    samples,        \* policy_samples.json: the list of files of each category
    cpc,            \* catalog: position of the script in check and dispatch
    checked,        \* catalog: the files os.path.exists has been asked about
    cmds            \* catalog: the commands built by the two dispatch loops

vars == <<pc, exit_status, exc, setup, ntasks, max_workers, now, total_start,
          total_end, futures, fstate, fexc, work_queue, idle_semaphore,
          shutdown, wpc, wtask, started, children, returncode, output, log,
          start, end, stdout, asc_finished, asc_pending, asc_waiter,
          asc_installed, results, samples, cpc, checked, cmds>>

mainVars == <<pc, exit_status, exc, total_start, total_end>>
poolVars == <<futures, fstate, fexc, work_queue, idle_semaphore, shutdown,
              wpc, wtask>>
taskVars == <<started, children, returncode, output, log, start, end>>
ascVars == <<asc_finished, asc_pending, asc_waiter, asc_installed, results>>
catVars == <<samples, cpc, checked, cmds>>

\* ------------------------------------------------------------------ text
\* A text is a sequence of tokens; every token is a record of one shape.
NL == [k |-> "NL", v |-> 0]
Header(cmd) == <<[k |-> "COMMAND", v |-> cmd]>>
FailedLine(code) == <<[k |-> "FAILED", v |-> code]>>
TimeLine(centis) == <<[k |-> "TIME", v |-> centis]>>
TotalLine(ms) == <<[k |-> "TOTAL", v |-> ms]>>
OutText == <<[k |-> "OUT", v |-> 0]>>
\* What a child may have written to the captured pipe.
Outputs == {<<>>, OutText}
\* The shell's "not found" message on the captured pipe (stderr=STDOUT).
NotFoundText == <<[k |-> "NOTFOUND", v |-> 0]>>

\* The shell reports the missing binary but exits like a plain failure.
MissingBinary_Status1 == [code |-> 1, out |-> NotFoundText]

\* A command whose binary does not exist: the shell is spawned, writes its
\* message and exits with ShellNotFound.
MissingBinary == [code |-> ShellNotFound, out |-> NotFoundText]

\* How the child of runCmd can end: any status with any output, or the
\* shell not finding the binary.
ChildOutcomes ==
    {[code |-> c, out |-> o] : c \in ExitCodes, o \in Outputs}
       \cup {MissingBinary}

\* Commands of the setup phase, numbered after the catalog's.
BuildCmd == MaxTasks + 1
ChmodCmd == MaxTasks + 2

\* "\n".join(log)
RECURSIVE join(_)
join(l) ==
    IF l = <<>> THEN <<>>
    ELSE IF Len(l) = 1 THEN l[1]
    ELSE l[1] \o <<NL>> \o join(Tail(l))

\* end - start and total_end - total_start, in milliseconds.
Millis(ticks) == ticks * TickMillis

\* round(x, 2) for x seconds given in milliseconds: the nearest hundredth
\* of a second, as a number of hundredths.
Round2(ms) == (ms + 5) \div 10

\* A clock that can go back.
Readings_Unordered == 0..MaxClock

\* time.time(): a reading no earlier than the latest one.
Readings == now..MaxClock

\* One write call on sys.stdout.
Write(by, data) == [by |-> by, data |-> data]

\* print(text) from a thread nobody else is running beside: the text, then
\* the line end.
print(out, by, text) == out \o <<Write(by, text), Write(by, <<NL>>)>>

\* --------------------------------------------------------------- catalog
\* The keys of policy_samples.json.
Categories == {"default", "incomplete_init", "silently_ignored",
               "no_policy", "needs_containerd_pull"}

\* A sample file is a relative path: a directory and a file name, the name
\* as its dot-separated parts.
Dirs == {"pod", "job"}
Names == {<<"a", "yaml">>, <<"a", "yml">>, <<"b", "yaml">>}
SampleFiles == [dir : Dirs, name : Names]

\* The file lists a policy_samples.json can hold: at most MaxTasks entries
\* in all; an entry names its category and its file.
Entries == UNION {[1..n -> Categories \X SampleFiles] : n \in 0..MaxTasks}

\* The files of category c among the entries, in their order.
RECURSIVE ListOf(_, _)
ListOf(e, c) ==
    IF e = <<>> THEN <<>>
    ELSE (IF Head(e)[1] = c THEN <<Head(e)[2]>> ELSE <<>>)
            \o ListOf(Tail(e), c)

SampleSets == {[c \in Categories |-> ListOf(e, c)] : e \in Entries}
NoSamples == [c \in Categories |-> <<>>]

default_yamls == samples["default"]
incomplete_init == samples["incomplete_init"]
silently_ignored == samples["silently_ignored"]
no_policy == samples["no_policy"]
needs_containerd_pull == samples["needs_containerd_pull"]

\* The list the existence check goes over.
CheckList == default_yamls \o incomplete_init \o silently_ignored \o no_policy

\* The lists of the two dispatch loops.
FirstLoop ==
    default_yamls \o incomplete_init \o no_policy \o needs_containerd_pull
SecondLoop == silently_ignored

\* os.path.basename(file): the path without its directory.
basename(file) == file.name

\* Path(name).stem: the name without its last suffix.
stem(name) ==
    IF Len(name) > 1 THEN SubSeq(name, 1, Len(name) - 1) ELSE name

\* os.path.join(file_base_path, file)
filepath(file) == [base |-> "file_base_path", dir |-> file.dir,
                   name |-> file.name]

\* "/tmp/" + Path(os.path.basename(file)).stem + "-rego.txt"
rego_file(file) == [dir |-> "/tmp", stem |-> stem(basename(file)),
                    suffix |-> "-rego.txt"]

\* The command line of one task: genpolicy -r -d -u [-s] -y <input> >
\* <rego_file>.
Cmd(file, s) == [silent |-> s, y |-> filepath(file), out |-> rego_file(file)]

\* The script before its first statement after the definitions: nothing
\* run, nothing printed, no executor.
RunInit ==
    /\ pc = "check_files"
    /\ exit_status = Running
    /\ exc = 0
    /\ setup = <<>>
    /\ now = 0
    /\ total_start = 0
    /\ total_end = 0
    /\ futures = <<>>
    /\ fstate = [t \in Tasks |-> "NONE"]
    /\ fexc = [t \in Tasks |-> FALSE]
    /\ work_queue = <<>>
    /\ idle_semaphore = 0
    /\ shutdown = FALSE
    /\ wpc = [w \in Workers |-> "unspawned"]
    /\ wtask = [w \in Workers |-> 0]
    /\ started = [t \in Tasks |-> 0]
    /\ children = [t \in Tasks |-> 0]
    /\ returncode = [t \in Tasks |-> Running]
    /\ output = [t \in Tasks |-> <<>>]
    /\ log = [t \in Tasks |-> <<>>]
    /\ start = [t \in Tasks |-> 0]
    /\ end = [t \in Tasks |-> 0]
    /\ stdout = <<>>
    /\ asc_finished = {}
    /\ asc_pending = {}
    /\ asc_waiter = <<>>
    /\ asc_installed = FALSE
    /\ results = [t \in Tasks |-> 0]

\* ------------------------------------------------------------------ Init
\* The run of the script over a catalog of ntasks commands; the file lists
\* themselves play no part in it.
Init ==
    /\ RunInit
    /\ ntasks \in 0..MaxTasks
    /\ max_workers \in 1..MaxWorkers
    /\ samples = NoSamples
    /\ cpc = "idle"
    /\ checked = <<>>
    /\ cmds = <<>>

\* ------------------------------------------------------------ main thread
\* The existence check over the sample files: sys.exit on a missing one.
CheckFiles ==
    /\ pc = "check_files"
    /\ \E missing \in BOOLEAN :
          IF missing
          THEN /\ pc' = "exited"
               /\ exit_status' = ExitFailure
          ELSE /\ pc' = "build"
               /\ UNCHANGED exit_status
    /\ UNCHANGED <<exc, total_start, total_end, ntasks, setup, max_workers,
                   catVars, now, stdout>>
    /\ UNCHANGED <<poolVars, taskVars, ascVars>>

\* check=False: the status is returned, nothing is raised.
CheckTrue_Off(code) == FALSE

\* subprocess.run(check=True) raises CalledProcessError on a non-zero status.
CheckTrue(code) == code # 0

\* print the header, then runCmd: check=True raises on a non-zero status
\* and nothing catches it.
SetupCmd(at, cmd, next) ==
    /\ pc = at
    /\ stdout' = print(stdout, Main, Header(cmd))
    /\ \E code \in ExitCodes :
          /\ setup' = Append(setup, [cmd |-> cmd, code |-> code])
          /\ IF CheckTrue(code)
             THEN /\ pc' = "exited"
                  /\ exit_status' = ExitFailure
             ELSE /\ pc' = next
                  /\ UNCHANGED exit_status
    /\ UNCHANGED <<exc, total_start, total_end, ntasks, max_workers, catVars,
                   now>>
    /\ UNCHANGED <<poolVars, taskVars, ascVars>>

Build == SetupCmd("build", BuildCmd, "chmod")

Chmod == SetupCmd("chmod", ChmodCmd, "total_start")

\* total_start = time.time(); the with statement creates the executor.
TotalStart ==
    /\ pc = "total_start"
    /\ \E tm \in Readings :
          /\ now' = tm
          /\ total_start' = tm
    /\ pc' = IF ntasks = 0 THEN "as_completed" ELSE "submit"
    /\ UNCHANGED <<exit_status, exc, total_end, ntasks, setup, max_workers,
                   catVars, stdout>>
    /\ UNCHANGED <<poolVars, taskVars, ascVars>>

\* ------------------------------------------------------------- executor
\* len(executor._threads)
NumThreads == Cardinality({w \in Workers : wpc[w] # "unspawned"})

\* Off by one: a new thread also at max_workers.
MaySpawn_AtLimit(num_threads, limit) == num_threads <= limit

\* _adjust_thread_count: a new thread only below max_workers.
MaySpawn(num_threads, limit) == num_threads < limit

\* executor.submit(timeRunCmd, cmd) for the next command of the two loops:
\* a PENDING future, its work item on the queue, _adjust_thread_count.
Submit ==
    /\ pc = "submit"
    /\ Len(futures) < ntasks
    /\ LET t == Len(futures) + 1
           free == {w \in Workers : wpc[w] = "unspawned"}
       IN  /\ futures' = Append(futures, t)
           /\ fstate' = [fstate EXCEPT ![t] = "PENDING"]
           /\ work_queue' = Append(work_queue, t)
           /\ IF idle_semaphore > 0
              THEN /\ idle_semaphore' = idle_semaphore - 1
                   /\ UNCHANGED wpc
              ELSE /\ UNCHANGED idle_semaphore
                   /\ IF MaySpawn(NumThreads, max_workers) /\ free # {}
                      THEN wpc' = [wpc EXCEPT ![CHOOSE w \in free :
                                      \A u \in free : w <= u] = "get"]
                      ELSE UNCHANGED wpc
           /\ pc' = IF t = ntasks THEN "as_completed" ELSE "submit"
    /\ UNCHANGED <<exit_status, exc, total_start, total_end, ntasks, setup,
                   max_workers, catVars, now, stdout, fexc, shutdown, wtask>>
    /\ UNCHANGED <<taskVars, ascVars>>

\* shutdown(cancel_futures=True): the pending items are dropped.
ShutdownQueue_Cancel(q) == <<None>>

\* What shutdown() leaves on the work queue: the pending items stay, a
\* wake-up None goes behind them (cancel_futures is False).
ShutdownQueue(q) == Append(q, None)

\* shutdown(wait=False): no thread is waited for.
Joined_NoWait(w) == TRUE

\* What Thread.join() waits for.
Joined(w) == wpc[w] \in {"unspawned", "exited"}

\* Leaving the for loop over as_completed, normally or by an exception:
\* the generator's finally removes the waiter.
LeaveLoop ==
    /\ asc_finished' = {}
    /\ asc_pending' = {}
    /\ asc_waiter' = <<>>
    /\ asc_installed' = FALSE

\* First step of as_completed(futures): the futures already finished, the
\* pending ones, and the waiter installed on all of them.
AsCompleted ==
    /\ pc = "as_completed"
    /\ IF ntasks = 0
       THEN /\ pc' = "shutdown"
            /\ UNCHANGED <<asc_finished, asc_pending, asc_waiter,
                           asc_installed>>
       ELSE /\ pc' = "collect"
            /\ asc_finished' = {t \in Tasks : fstate[t] = "FINISHED"}
            /\ asc_pending' = {t \in Tasks :
                                 fstate[t] \in {"PENDING", "RUNNING"}}
            /\ asc_waiter' = <<>>
            /\ asc_installed' = TRUE
    /\ UNCHANGED <<exit_status, exc, total_start, total_end, ntasks, setup,
                   max_workers, catVars, now, stdout, results>>
    /\ UNCHANGED <<poolVars, taskVars>>

\* future.result() without the re-raise.
Raises_Never(t) == FALSE

\* future.result(): re-raises the exception the future holds.
Raises(t) == fexc[t]

\* One iteration of the for loop: as_completed yields a future, the body
\* calls future.result().  An exception leaves the loop and the with body.
Collect ==
    /\ pc = "collect"
    /\ \E t \in Tasks :
          /\ IF asc_finished # {}
             THEN t \in asc_finished
             ELSE asc_waiter # <<>> /\ t = Head(asc_waiter)
          /\ results' = [results EXCEPT ![t] = @ + 1]
          /\ LET fin == asc_finished \ {t}
                 pend == asc_pending \ {t}
                 wait == IF asc_finished # {} THEN asc_waiter
                         ELSE Tail(asc_waiter)
             IN  IF Raises(t)
                 THEN /\ exc' = t
                      /\ pc' = "shutdown"
                      /\ LeaveLoop
                 ELSE IF fin = {} /\ pend = {}
                 THEN /\ UNCHANGED exc
                      /\ pc' = "shutdown"
                      /\ LeaveLoop
                 ELSE /\ UNCHANGED exc
                      /\ pc' = "collect"
                      /\ asc_finished' = fin
                      /\ asc_pending' = pend
                      /\ asc_waiter' = wait
                      /\ UNCHANGED asc_installed
    /\ UNCHANGED <<exit_status, total_start, total_end, ntasks, setup,
                   max_workers, catVars, now, stdout>>
    /\ UNCHANGED <<poolVars, taskVars>>

\* The with statement's __exit__: executor.shutdown(wait=True), first half.
Shutdown ==
    /\ pc = "shutdown"
    /\ shutdown' = TRUE
    /\ work_queue' = ShutdownQueue(work_queue)
    /\ pc' = "join"
    /\ UNCHANGED <<exit_status, exc, total_start, total_end, ntasks, setup,
                   max_workers, catVars, now, stdout, futures, fstate, fexc,
                   idle_semaphore, wpc, wtask>>
    /\ UNCHANGED <<taskVars, ascVars>>

\* The with statement is always left by an exception.
Propagates_Always(e) == TRUE

\* __exit__ swallows the exception.
Propagates_Swallowed(e) == FALSE

\* An exception raised in the with body goes on after __exit__.
Propagates(e) == e # 0

\* Second half: join every worker thread; then the with statement is left,
\* by the pending exception (uncaught: traceback, status 1) or normally.
JoinThreads ==
    /\ pc = "join"
    /\ \A w \in Workers : Joined(w)
    /\ IF Propagates(exc)
       THEN /\ pc' = "exited"
            /\ exit_status' = ExitFailure
       ELSE /\ pc' = "total_end"
            /\ UNCHANGED exit_status
    /\ UNCHANGED <<exc, total_start, total_end, ntasks, setup, max_workers,
                   catVars, now, stdout>>
    /\ UNCHANGED <<poolVars, taskVars, ascVars>>

\* total_end = time.time() and the total-time line; the script ends.
TotalEnd ==
    /\ pc = "total_end"
    /\ \E tm \in Readings :
          /\ now' = tm
          /\ total_end' = tm
          /\ stdout' = print(stdout, Main, TotalLine(Millis(tm - total_start)))
    /\ pc' = "exited"
    /\ exit_status' = ExitSuccess
    /\ UNCHANGED <<exc, total_start, ntasks, setup, max_workers, catVars>>
    /\ UNCHANGED <<poolVars, taskVars, ascVars>>

\* --------------------------------------------------------- worker threads
\* The item is read but stays on the queue.
Dequeue_Peek(q) == q

\* work_queue.get(): the item leaves the queue.
Dequeue(q) == Tail(q)

\* _worker takes a work item off the queue and runs it: the future goes to
\* RUNNING, timeRunCmd starts its log and its clock, runCmd spawns the child.
WorkerRun(w) ==
    /\ wpc[w] = "get"
    /\ work_queue # <<>>
    /\ Head(work_queue) # None
    /\ LET t == Head(work_queue)
       IN  /\ work_queue' = Dequeue(work_queue)
           /\ fstate' = [fstate EXCEPT ![t] = "RUNNING"]
           /\ wtask' = [wtask EXCEPT ![w] = t]
           /\ started' = [started EXCEPT ![t] = @ + 1]
           /\ log' = [log EXCEPT ![t] = <<Header(t)>>]
           /\ \E tm \in Readings :
                 /\ now' = tm
                 /\ start' = [start EXCEPT ![t] = tm]
           /\ children' = [children EXCEPT ![t] = @ + 1]
    /\ wpc' = [wpc EXCEPT ![w] = "runCmd"]
    /\ UNCHANGED <<mainVars, ntasks, setup, max_workers, catVars, stdout,
                   futures, fexc, idle_semaphore, shutdown, returncode,
                   output, end>>
    /\ UNCHANGED ascVars

\* The wake-up item is not passed on.
Requeue_Drop(q) == q

\* work_queue.put(None): the exiting worker wakes the next one.
Requeue(q) == Append(q, None)

\* _worker takes None off the queue: after shutdown it puts it back for the
\* other workers and returns.
WorkerExit(w) ==
    /\ wpc[w] = "get"
    /\ work_queue # <<>>
    /\ Head(work_queue) = None
    /\ IF shutdown
       THEN /\ work_queue' = Requeue(Dequeue(work_queue))
            /\ wpc' = [wpc EXCEPT ![w] = "exited"]
       ELSE /\ work_queue' = Dequeue(work_queue)
            /\ UNCHANGED wpc
    /\ UNCHANGED <<mainVars, ntasks, setup, max_workers, catVars, now, stdout,
                   futures, fstate, fexc, idle_semaphore, shutdown, wtask>>
    /\ UNCHANGED <<taskVars, ascVars>>

\* The failure line is forgotten.
ExceptLines_NoMarker(code, out) == <<out>>

\* except subprocess.CalledProcessError: the output, then the failure line.
ExceptLines(code, out) == <<out, FailedLine(code)>>

\* The output is appended even when empty.
ElseLines_Always(out) == <<out>>

\* else: the output when there is any.
ElseLines(out) == IF out # <<>> THEN <<out>> ELSE <<>>

\* finally: the time-taken line.
FinallyLines(ticks) == <<TimeLine(Round2(Millis(ticks)))>>

\* The footer and the print sit in the else clause only.
FinallyRuns_ElseOnly(code) == code = 0

\* The finally clause runs whether runCmd returned or raised.
FinallyRuns(code) == TRUE

\* print(text), first write call: the joined log.
PrintText(out, t, l) == Append(out, Write(t, join(l)))

\* The child ends and runCmd returns or raises; timeRunCmd completes its log
\* and print() writes the joined text.
RunCmdReturns(w) ==
    /\ wpc[w] = "runCmd"
    /\ LET t == wtask[w]
       IN  \E oc \in ChildOutcomes, tm \in Readings :
            LET code == oc.code
                out == oc.out
            IN
              /\ returncode' = [returncode EXCEPT ![t] = code]
              /\ output' = [output EXCEPT ![t] = out]
              /\ now' = tm
              /\ end' = [end EXCEPT ![t] = tm]
              /\ log' = [log EXCEPT ![t] =
                            @ \o (IF CheckTrue(code) THEN ExceptLines(code, out)
                                  ELSE ElseLines(out))
                              \o (IF FinallyRuns(code)
                                  THEN FinallyLines(tm - start[t])
                                  ELSE <<>>)]
              /\ IF FinallyRuns(code)
                 THEN /\ stdout' = PrintText(stdout, t, log'[t])
                      /\ wpc' = [wpc EXCEPT ![w] = "print_end"]
                 ELSE /\ UNCHANGED stdout
                      /\ wpc' = [wpc EXCEPT ![w] = "set_result"]
    /\ UNCHANGED <<mainVars, ntasks, setup, max_workers, catVars, futures,
                   fstate, fexc, work_queue, idle_semaphore, shutdown, wtask,
                   started, children, start>>
    /\ UNCHANGED ascVars

\* print() writes its end, the newline, in a second write call.
PrintEnd(w) ==
    /\ wpc[w] = "print_end"
    /\ stdout' = Append(stdout, Write(wtask[w], <<NL>>))
    /\ wpc' = [wpc EXCEPT ![w] = "set_result"]
    /\ UNCHANGED <<mainVars, ntasks, setup, max_workers, catVars, now>>
    /\ UNCHANGED <<futures, fstate, fexc, work_queue, idle_semaphore,
                   shutdown, wtask>>
    /\ UNCHANGED <<taskVars, ascVars>>

\* The except clause ends without raising.
Reraise_Swallowed(code) == FALSE

\* The bare raise of the except clause: a non-zero status leaves timeRunCmd
\* as an exception.
Reraise(code) == code # 0

\* timeRunCmd has returned or raised: set_result / set_exception finish the
\* future and notify the waiter; the worker releases the idle semaphore and
\* goes back to the queue.
SetResult(w) ==
    /\ wpc[w] = "set_result"
    /\ LET t == wtask[w]
       IN  /\ fstate' = [fstate EXCEPT ![t] = "FINISHED"]
           /\ fexc' = [fexc EXCEPT ![t] = Reraise(returncode[t])]
           /\ asc_waiter' = IF asc_installed THEN Append(asc_waiter, t)
                            ELSE asc_waiter
    /\ idle_semaphore' = idle_semaphore + 1
    /\ wpc' = [wpc EXCEPT ![w] = "get"]
    /\ wtask' = [wtask EXCEPT ![w] = 0]
    /\ UNCHANGED <<mainVars, ntasks, setup, max_workers, catVars, now, stdout,
                   futures, work_queue, shutdown, asc_finished, asc_pending,
                   asc_installed, results>>
    /\ UNCHANGED taskVars

\* ------------------------------------------------------- specifications
MainStep ==
    \/ CheckFiles
    \/ Build
    \/ Chmod
    \/ TotalStart
    \/ Submit
    \/ AsCompleted
    \/ Collect
    \/ Shutdown
    \/ JoinThreads
    \/ TotalEnd

WorkerStep(w) ==
    \/ WorkerRun(w)
    \/ WorkerExit(w)
    \/ RunCmdReturns(w)
    \/ PrintEnd(w)
    \/ SetResult(w)

Next ==
    \/ MainStep
    \/ \E w \in Workers : WorkerStep(w)

Spec == Init /\ [][Next]_vars

\* Threads are scheduled fairly and every child process terminates.
FairSpec ==
    /\ Spec
    /\ WF_vars(MainStep)
    /\ \A w \in Workers : WF_vars(WorkerStep(w))

\* ------------------------------------------- catalog: check and dispatch
\* Everything of the run that the file lists do not touch.
runVars == <<mainVars, setup, ntasks, max_workers, now, stdout, poolVars,
             taskVars, ascVars>>

\* The script handed some policy_samples.json.
CatalogInit ==
    /\ RunInit
    /\ samples \in SampleSets
    /\ ntasks = Len(FirstLoop) + Len(SecondLoop)
    /\ max_workers = 1
    /\ cpc = "check"
    /\ checked = <<>>
    /\ cmds = <<>>

\* One round of the existence loop: sys.exit on a file that is not there;
\* after the last file the script goes on to the setup commands.
CheckFile ==
    /\ cpc = "check"
    /\ IF Len(checked) = Len(CheckList)
       THEN /\ cpc' = "setup"
            /\ UNCHANGED checked
       ELSE \E exists \in BOOLEAN :
               /\ checked' = Append(checked, CheckList[Len(checked) + 1])
               /\ cpc' = IF exists THEN "check" ELSE "exited"
    /\ UNCHANGED <<samples, cmds>>
    /\ UNCHANGED runVars

\* The build and the chmod: the script goes on when both exit 0.
SetupTools ==
    /\ cpc = "setup"
    /\ \E ok \in BOOLEAN : cpc' = IF ok THEN "dispatch" ELSE "exited"
    /\ UNCHANGED <<samples, checked, cmds>>
    /\ UNCHANGED runVars

\* One round of the dispatch loops: the command of the next file, first
\* loop then second loop, is built and submitted.
DispatchFile ==
    /\ cpc = "dispatch"
    /\ LET i == Len(cmds) + 1
       IN  IF i <= Len(FirstLoop)
           THEN /\ cmds' = Append(cmds, Cmd(FirstLoop[i], FALSE))
                /\ UNCHANGED cpc
           ELSE IF i <= Len(FirstLoop) + Len(SecondLoop)
           THEN /\ cmds' = Append(cmds,
                              Cmd(SecondLoop[i - Len(FirstLoop)], TRUE))
                /\ UNCHANGED cpc
           ELSE /\ cpc' = "dispatched"
                /\ UNCHANGED cmds
    /\ UNCHANGED <<samples, checked>>
    /\ UNCHANGED runVars

CatalogNext ==
    \/ CheckFile
    \/ SetupTools
    \/ DispatchFile

CatalogSpec == CatalogInit /\ [][CatalogNext]_vars

\* ----------------------------------------------------------------- claims
\* The dispatched tasks: those a future was created for.
Submitted == {t \in Tasks : fstate[t] # "NONE"}

\* Tasks that entered timeRunCmd and whose future is not finished yet.
InFlight == {t \in Tasks : started[t] > 0 /\ fstate[t] # "FINISHED"}

\* Tasks whose command exited non-zero.
Failed == {t \in Tasks : returncode[t] > 0}

\* The run is over and it got as far as the worker pool.
BatchDone == pc = "exited" /\ shutdown

\* C1: at every moment the number of tasks that entered timeRunCmd and have
\* not finished is at most the pool width, also with more tasks than workers.
C1_AtMostWidthRunning == Cardinality(InFlight) <= max_workers

\* C1 witness: more tasks than workers, every worker busy, a task waiting.
C1_Witness ==
    /\ ntasks > max_workers
    /\ Cardinality(InFlight) = max_workers
    /\ \E t \in Tasks : fstate[t] = "PENDING"

\* C2: no task is started twice and each start spawns exactly one child;
\* with fair threads and terminating children every submitted task is
\* eventually started, whatever the other tasks' outcomes.
C2_StartedExactlyOnce ==
    /\ [](\A t \in Tasks : /\ started[t] <= 1
                           /\ children[t] = started[t]
                           /\ (started[t] > 0 => t \in Submitted))
    /\ \A t \in Tasks : (t \in Submitted) ~> (started[t] = 1)

\* C2 witness: every task of a full catalog was started once although one
\* of them failed.
C2_Witness ==
    /\ ntasks = MaxTasks
    /\ \A t \in Tasks : started[t] = 1 /\ children[t] = 1
    /\ Failed # {}

\* C3: once a task has failed, every other submitted task, running or still
\* queued, observed or not, is still started and runs to completion.
C3_FailureCancelsNothing ==
    \A t \in Tasks : \A u \in Tasks \ {t} :
       (t \in Failed /\ u \in Submitted)
          ~> (started[u] = 1 /\ fstate[u] = "FINISHED")

\* C3 witness: the loop has seen a task's failure and shutdown has begun
\* while another task is still waiting on the queue.
C3_Witness ==
    \E t \in Tasks : \E u \in Tasks \ {t} :
       /\ exc = t
       /\ shutdown
       /\ fstate[u] = "PENDING"

\* C4: the with block is left, by the exception that ends the process or
\* towards the total-time line, only when every submitted task has finished.
C4_OutcomeAfterDrain ==
    pc \in {"total_end", "exited"} =>
       \A t \in Submitted : fstate[t] = "FINISHED"

\* C4 witness: a failed run has ended, and a task the loop never collected
\* has finished all the same.
C4_Witness ==
    /\ BatchDone
    /\ exit_status = ExitFailure
    /\ \E u \in Submitted : results[u] = 0 /\ fstate[u] = "FINISHED"

\* The write calls of task t other than a bare line end.
TextWrites(t) ==
    {i \in DOMAIN stdout : stdout[i].by = t /\ stdout[i].data # <<NL>>}

\* The total-time line has been printed.
TotalReported ==
    \E i \in DOMAIN stdout :
       /\ stdout[i].by = Main
       /\ stdout[i].data[1].k = "TOTAL"

\* The futures that hold an exception.
Raised == {t \in Tasks : fexc[t]}

\* C5 as stated: in every completed batch run, failed or not, the loop has
\* called future.result() exactly once for every dispatched task.
C5_EveryOutcomeCollected ==
    BatchDone => \A t \in Submitted : results[t] = 1

\* C5 amended: no outcome is retrieved twice; a completed run without a
\* failed task has retrieved every outcome exactly once; a completed run
\* with failed tasks has retrieved exactly one failed outcome, the one that
\* ended the loop.
C5_CollectedUntilFirstFailure ==
    /\ \A t \in Tasks : results[t] <= 1
    /\ \A t \in Tasks : results[t] = 1 => t \in Submitted
    /\ BatchDone =>
          IF Raised = {}
          THEN \A t \in Submitted : results[t] = 1
          ELSE {t \in Raised : results[t] = 1} = {exc}

\* C5 witness: a completed run in which one task failed and another task's
\* outcome was never retrieved.
C5_Witness ==
    /\ BatchDone
    /\ exc # 0
    /\ \E u \in Submitted : u # exc /\ results[u] = 0

\* C6 as stated: every terminated batch run, failed or not, has printed the
\* total elapsed time.
C6_TotalAlwaysReported == BatchDone => TotalReported

\* C6 amended: a run with a failed task ends with failure and prints no
\* total elapsed time; the total is printed exactly by the completed runs
\* in which no task failed.
C6_TotalOnlyOnSuccess ==
    /\ TotalReported <=> (BatchDone /\ Raised = {})
    /\ (BatchDone /\ Raised # {}) => exit_status = ExitFailure

\* C6 witness: a run with a failed task has ended without the total line.
C6_Witness ==
    /\ BatchDone
    /\ Raised # {}
    /\ exit_status = ExitFailure
    /\ ~TotalReported

\* C7: when a task's future is finished, with a result or an exception, the
\* task's complete log block, footer and line end included, is on stdout.
C7_LogBeforeOutcome ==
    \A t \in Tasks :
       fstate[t] = "FINISHED" =>
          /\ log[t][Len(log[t])][1].k = "TIME"
          /\ \E i \in DOMAIN stdout : \E j \in DOMAIN stdout :
                /\ i < j
                /\ stdout[i] = Write(t, join(log[t]))
                /\ stdout[j] = Write(t, <<NL>>)

\* C7 witness: one future finished with an exception and one with a result.
C7_Witness ==
    \E t \in Tasks : \E u \in Tasks :
       /\ fstate[t] = "FINISHED" /\ fexc[t]
       /\ fstate[u] = "FINISHED" /\ ~fexc[u]

\* C8 as stated: no write of another task lies between the first character
\* of a task's log block and its terminating line end.
C8_BlockIndivisible ==
    \A i \in DOMAIN stdout : \A j \in DOMAIN stdout :
       (i < j /\ stdout[i].by \in Tasks /\ stdout[j].by = stdout[i].by) =>
          \A m \in i..j : stdout[m].by = stdout[i].by

\* The block a failed task must have written.
FailedBlock(t) ==
    Header(t) \o <<NL>> \o output[t] \o <<NL>>
       \o FailedLine(returncode[t]) \o <<NL>>
       \o TimeLine(Round2(Millis(end[t] - start[t])))

\* C9: a task whose command exited non-zero wrote exactly one block: header,
\* captured output, failure line with the exit status, time footer; its
\* future holds an exception and the finished run has failed.
C9_FailedTaskBlock ==
    \A t \in Failed :
       /\ \E i \in DOMAIN stdout : TextWrites(t) = {i}
       /\ \A i \in TextWrites(t) : stdout[i].data = FailedBlock(t)
       /\ fstate[t] = "FINISHED" => fexc[t]
       /\ BatchDone => exit_status = ExitFailure

\* C9 witness: a finished run with a failed task that had captured output
\* and one that had none.
C9_Witness ==
    /\ BatchDone
    /\ \E t \in Failed : output[t] # <<>>
    /\ \E t \in Failed : output[t] = <<>>

\* The block a successful task must have written.
SuccessBlock(t) ==
    IF output[t] # <<>>
    THEN Header(t) \o <<NL>> \o output[t] \o <<NL>>
            \o TimeLine(Round2(Millis(end[t] - start[t])))
    ELSE Header(t) \o <<NL>> \o TimeLine(Round2(Millis(end[t] - start[t])))

\* C10: a task whose command exited 0 wrote exactly one block: header, the
\* captured output exactly when it is not empty, time footer, no failure
\* line; its future holds no exception.
C10_SuccessTaskBlock ==
    \A t \in Tasks :
       returncode[t] = 0 =>
          /\ \E i \in DOMAIN stdout : TextWrites(t) = {i}
          /\ \A i \in TextWrites(t) :
                /\ stdout[i].data = SuccessBlock(t)
                /\ \A n \in DOMAIN stdout[i].data :
                      stdout[i].data[n].k # "FAILED"
          /\ ~fexc[t]

\* C10 witness: two successful tasks have finished, one with captured output
\* and one without.
C10_Witness ==
    \E t \in Tasks : \E u \in Tasks :
       /\ returncode[t] = 0 /\ output[t] = <<>> /\ fstate[t] = "FINISHED"
       /\ returncode[u] = 0 /\ output[u] # <<>> /\ fstate[u] = "FINISHED"

\* C11 as stated: a run that has ended has exit status 0 exactly when no
\* dispatched task failed.
C11_ZeroIffNoTaskFailed ==
    pc = "exited" => ((exit_status = ExitSuccess) <=> (Failed = {}))

\* C11: a run that reached the dispatch block and ended has exit status 0
\* exactly when no dispatched task failed, and a non-zero status when one
\* did; a run that ended before the dispatch block (a missing file, a failed
\* setup command) dispatched nothing and has a non-zero status.
C11_ExitStatusIffNoFailure ==
    /\ BatchDone =>
          /\ exit_status \in {ExitSuccess, ExitFailure}
          /\ (exit_status = ExitSuccess) <=> (Failed = {})
    /\ (pc = "exited" /\ ~shutdown) =>
          /\ exit_status = ExitFailure
          /\ Submitted = {}
          /\ Failed = {}

\* C11 witness: a finished run in which one task failed and another
\* succeeded, ended with a non-zero status.
C11_Witness ==
    /\ BatchDone
    /\ exit_status # ExitSuccess
    /\ \E t \in Failed : \E u \in Tasks : returncode[u] = 0

\* The tasks whose command named a binary that does not exist.
NoBinary == {t \in Tasks : output[t] = NotFoundText}

\* The log of task t cites an exit code.
CitesExitCode(t) == \E i \in DOMAIN log[t] : log[t][i][1].k = "FAILED"

\* C12 as stated: a task whose binary does not exist has no child exit
\* status and its block cites no exit code.
C12_NoExitStatus ==
    \A t \in NoBinary : returncode[t] = Running /\ ~CitesExitCode(t)

\* C12: a task whose binary does not exist ends like any failed command,
\* with the exit status of the shell, ShellNotFound: its block is the failed
\* block with the shell's message and the failure line citing that status,
\* its future holds an exception once finished, and the finished run has
\* failed.
C12_MissingBinaryIsFailedCommand ==
    \A t \in NoBinary :
       /\ returncode[t] = ShellNotFound
       /\ t \in Failed
       /\ CitesExitCode(t)
       /\ join(log[t]) = FailedBlock(t)
       /\ log[t][3] = FailedLine(ShellNotFound)
       /\ fstate[t] = "FINISHED" => fexc[t]
       /\ BatchDone => exit_status = ExitFailure

\* C12 witness: a finished run in which one command's binary did not exist
\* and the other task succeeded.
C12_Witness ==
    /\ BatchDone
    /\ \E t \in NoBinary : \E u \in Tasks \ {t} : returncode[u] = 0
    /\ exit_status = ExitFailure

\* With an empty catalog nothing of any task exists: no future, no start, no
\* child, no result retrieved, no log, no write, no worker thread.
NothingDispatched ==
    /\ futures = <<>>
    /\ exc = 0
    /\ \A w \in Workers : wpc[w] = "unspawned"
    /\ \A t \in Tasks :
          /\ started[t] = 0
          /\ children[t] = 0
          /\ results[t] = 0
          /\ log[t] = <<>>
          /\ \A i \in DOMAIN stdout : stdout[i].by # t

\* C13: with an empty catalog no task is ever started, no block is written
\* and the loop collects nothing; the run that reaches the dispatch block
\* terminates, with success and the total-time line printed.
C13_EmptyCatalog ==
    /\ [](ntasks = 0 => NothingDispatched)
    /\ []((ntasks = 0 /\ BatchDone) =>
             (exit_status = ExitSuccess /\ TotalReported))
    /\ (ntasks = 0 /\ pc = "as_completed")
          ~> (BatchDone /\ exit_status = ExitSuccess /\ TotalReported)

\* C13 witness: a finished run over an empty catalog, total time printed.
C13_Witness ==
    /\ ntasks = 0
    /\ BatchDone
    /\ exit_status = ExitSuccess
    /\ TotalReported
    /\ NothingDispatched

\* The failed tasks whose outcome the loop retrieved.
Surfaced == {t \in Failed : results[t] >= 1}

\* Task t has written its whole block, line end included.
BlockWritten(t) ==
    \E i \in DOMAIN stdout :
       /\ stdout[i] = Write(t, join(log[t]))
       /\ \E j \in DOMAIN stdout : j > i /\ stdout[j] = Write(t, <<NL>>)

\* C15: in a finished run with failed tasks, one or several, exactly one
\* failure was surfaced: the propagating exception is that of the one failed
\* task whose outcome the loop retrieved, every task yielded before it had
\* succeeded, and it need not be the first failed task of the catalog; every
\* failed task, surfaced or not, has written its failed block.
C15_OneFailureSurfaced ==
    (BatchDone /\ Failed # {}) =>
       /\ exc \in Failed
       /\ Surfaced = {exc}
       /\ results[exc] = 1
       /\ \A t \in Tasks \ {exc} : results[t] >= 1 => returncode[t] = 0
       /\ exit_status = ExitFailure
       /\ \A t \in Failed :
             /\ join(log[t]) = FailedBlock(t)
             /\ BlockWritten(t)
             /\ Cardinality(TextWrites(t)) = 1

\* C15 witness: both tasks failed and the failure surfaced is that of the
\* second task of the catalog; the first one's outcome was never retrieved
\* but its block is written.
C15_Witness ==
    /\ BatchDone
    /\ Failed = {1, 2}
    /\ exc = 2
    /\ results[1] = 0
    /\ BlockWritten(1)

\* The time footers on stdout, as pairs <<write, position>>.
Footers ==
    {ij \in UNION {{<<i, j>> : j \in DOMAIN stdout[i].data} :
                      i \in DOMAIN stdout} :
        /\ stdout[ij[1]].by # Main
        /\ stdout[ij[1]].data[ij[2]].k = "TIME"}

\* The total elapsed times reported, in milliseconds.
Totals ==
    {stdout[i].data[1].v :
        i \in {n \in DOMAIN stdout :
                  stdout[n].by = Main /\ stdout[n].data[1].k = "TOTAL"}}

\* C16 as stated: the total elapsed time reported is at least the elapsed
\* time every task logged.
C16_TotalAtLeastLogged ==
    \A total \in Totals : \A f \in Footers :
       stdout[f[1]].data[f[2]].v * 10 <= total

\* C16: on a non-decreasing clock total_start is no later than any task's
\* start and, once read, total_end no earlier than any task's end, so the
\* total elapsed time reported is at least every task's elapsed time before
\* rounding; the time a task logged is rounded to hundredths of a second and
\* exceeds the reported total by at most half a hundredth (5 ms).
C16_TotalAtLeastUnrounded ==
    /\ \A t \in Tasks :
          /\ started[t] > 0 => total_start <= start[t]
          /\ returncode[t] # Running => start[t] <= end[t]
    /\ TotalReported =>
          /\ Totals = {Millis(total_end - total_start)}
          /\ \A t \in Submitted :
                /\ total_start <= start[t]
                /\ start[t] <= end[t]
                /\ end[t] <= total_end
                /\ Millis(end[t] - start[t]) <= Millis(total_end - total_start)
          /\ \A total \in Totals : \A f \in Footers :
                stdout[f[1]].data[f[2]].v * 10 <= total + 5

\* C16 witness: a run that reported its total, in which a task's logged time
\* (one tick, rounded up) is larger than the total reported.
C16_Witness ==
    /\ TotalReported
    /\ ntasks = MaxTasks
    /\ \E t \in Submitted : end[t] > start[t]
    /\ \E total \in Totals : \E f \in Footers :
          stdout[f[1]].data[f[2]].v * 10 > total

\* The tasks whose child process is running.
ChildRunning == {t \in Tasks : children[t] > 0 /\ returncode[t] = Running}

\* C18: when every child process ends (fairness of the worker threads) the
\* run ends: it reaches its final outcome, with every dispatched task
\* finished and every worker thread gone; and as long as a child process
\* has not ended the run has not reached its final outcome.
C18_TerminatesWithChildren ==
    /\ <>(pc = "exited" /\ exit_status \in {ExitSuccess, ExitFailure})
    /\ [](pc = "exited" =>
             /\ ChildRunning = {}
             /\ InFlight = {}
             /\ \A t \in Submitted : fstate[t] = "FINISHED" /\ started[t] = 1
             /\ \A w \in Workers : Joined(w))
    /\ [](ChildRunning # {} => (pc # "exited" /\ exit_status = Running))

\* C18 witness: a finished run of a full catalog on a full pool: every task
\* finished, every worker thread exited.
C18_Witness ==
    /\ BatchDone
    /\ ntasks = MaxTasks
    /\ \A t \in Tasks : fstate[t] = "FINISHED"
    /\ \A w \in Workers : wpc[w] = "exited"

\* The setup commands that must have run before anything is dispatched.
SetupDone == <<[cmd |-> BuildCmd, code |-> 0], [cmd |-> ChmodCmd, code |-> 0]>>

\* The executor exists or something was handed to it.
PoolCreated ==
    \/ pc \in {"submit", "as_completed", "collect", "shutdown", "join",
               "total_end"}
    \/ Submitted # {}
    \/ shutdown
    \/ \E w \in Workers : wpc[w] # "unspawned"
    \/ \E t \in Tasks : started[t] > 0

\* C19: the pool is created and tasks are dispatched only after the build
\* and then the chmod both ran and exited 0; the commands run in that order,
\* each at most once; a non-zero status of either is the last thing the
\* setup did and ends the run with failure, nothing dispatched.
C19_SetupBeforeDispatch ==
    /\ PoolCreated => setup = SetupDone
    /\ Len(setup) <= 2
    /\ \A i \in DOMAIN setup :
          /\ setup[i].cmd = (IF i = 1 THEN BuildCmd ELSE ChmodCmd)
          /\ setup[i].code # 0 =>
                /\ i = Len(setup)
                /\ pc = "exited"
                /\ exit_status = ExitFailure
                /\ ~PoolCreated
                /\ total_start = 0 /\ futures = <<>>

\* C19 witness: a task is running after both setup commands exited 0.
C19_Witness ==
    /\ setup = SetupDone
    /\ \E t \in Tasks : started[t] > 0
    /\ ntasks = MaxTasks

\* C14: any two tasks the dispatch loops built have different output
\* destinations (the file their command line redirects to).
C14_UniqueDestinations ==
    \A i \in DOMAIN cmds : \A j \in DOMAIN cmds :
       i # j => cmds[i].out # cmds[j].out

\* C17: every file a task was dispatched for is one the existence check
\* went over, and found, before the setup commands.
C17_DispatchedWereChecked ==
    \A i \in DOMAIN cmds :
       \E j \in DOMAIN checked : filepath(checked[j]) = cmds[i].y

====
